---- MODULE Spec2Model ----
(***************************************************************************)
(* Model of the proxy detailed-log console                                 *)
(* (src/renderer/src/components/proxy/ProxyDetailedLogsDialog.tsx).        *)
(*                                                                         *)
(* JavaScript strings are sequences of one-character strings, so that      *)
(* toLowerCase, includes, template literals and join are computed and not  *)
(* assumed.  A value of the field data (declared "unknown") is a tagged    *)
(* record; the tags follow the JavaScript types that JSON can carry.       *)
(***************************************************************************)
EXTENDS Integers, Sequences, FiniteSets, TLC

VARIABLES
    open,            \* prop open
    logs,            \* useState<LogEntry[]>([])
    loading,         \* useState(false)
    searchText,      \* useState('')
    levelFilter,     \* useState('all')
    categoryFilter,  \* useState('all')
    autoScroll,      \* useState(true)
    expandedLogs,    \* useState<Set<number>>(new Set())
    pollIntervalRef, \* useRef(null): 0 is null, otherwise an interval id
    timers,          \* the interval timers armed in the runtime
    inflight,        \* proxyGetLogs calls whose promise has not settled
    clears,          \* proxyClearLogs calls whose promise has not settled
    nextId,          \* number of the next request issued
    store,           \* the records held by the log store
    produced,        \* how many records the store has been given so far
    exported,        \* <<>> or <<content>>: the text of the last export
    curInit,         \* id of the fetch issued by the last open; 0 while hidden
    scrolled,        \* the last commit ran scrollTop = scrollHeight
    logsFrom,        \* id of the fetch whose result logs holds; 0 if none
    purged           \* records produced before the latest clear that settled

vars == <<open, logs, loading, searchText, levelFilter, categoryFilter,
          autoScroll, expandedLogs, pollIntervalRef, timers, inflight, clears,
          nextId, store, produced, exported, curInit, scrolled, logsFrom,
          purged>>

----------------------------------------------------------------------------
(* Bounds of the model *)

\* the longest snapshot FilterSpec starts from
MaxLen == 3
\* requests (getLogs and clearLogs together) issued in one behaviour
MaxRequests == 3
\* records the store is given in one behaviour
MaxProduced == 2
\* requests issued in one busy period of LiveSpec
MaxLiveRequests == 2

----------------------------------------------------------------------------
(* Strings *)

UpperCase == <<"A","B","C","D","E","F","G","H","I","J","K","L","M",
               "N","O","P","Q","R","S","T","U","V","W","X","Y","Z">>
LowerCase == <<"a","b","c","d","e","f","g","h","i","j","k","l","m",
               "n","o","p","q","r","s","t","u","v","w","x","y","z">>

ToLowerChar(c) ==
    IF \E i \in 1..26 : UpperCase[i] = c
    THEN LowerCase[CHOOSE i \in 1..26 : UpperCase[i] = c]
    ELSE c

RECURSIVE toLowerCase(_)
toLowerCase(s) ==
    IF s = <<>> THEN <<>>
    ELSE <<ToLowerChar(Head(s))>> \o toLowerCase(Tail(s))

\* String.prototype.includes
includes(s, sub) ==
    \E i \in 0..(Len(s) - Len(sub)) : SubSeq(s, i + 1, i + Len(sub)) = sub

Digits == <<"0","1","2","3","4","5","6","7","8","9">>

RECURSIVE NumToStr(_)
NumToStr(n) ==
    IF n < 10 THEN <<Digits[n + 1]>>
    ELSE NumToStr(n \div 10) \o <<Digits[(n % 10) + 1]>>

RECURSIVE join(_, _)
join(lines, sep) ==
    IF lines = <<>> THEN <<>>
    ELSE IF Len(lines) = 1 THEN lines[1]
    ELSE lines[1] \o sep \o join(Tail(lines), sep)

----------------------------------------------------------------------------
(* Values of LogEntry.data *)

Undefined == [t |-> "undefined", n |-> 0, s |-> <<>>]
Null      == [t |-> "null",      n |-> 0, s |-> <<>>]
Num(n)    == [t |-> "number",    n |-> n, s |-> <<>>]
Str(s)    == [t |-> "string",    n |-> 0, s |-> s]
\* the one-key object {s: n}
Obj(s, n) == [t |-> "object",    n |-> n, s |-> s]

\* what "log.data ? a : b" and "log.data && x" test
Truthy(d) ==
    CASE d.t = "undefined" -> FALSE
      [] d.t = "null"      -> FALSE
      [] d.t = "number"    -> d.n # 0
      [] d.t = "string"    -> d.s # <<>>
      [] d.t = "object"    -> TRUE

\* what the row renderer tests
hasData(d) == d.t # "undefined" /\ d.t # "null"

\* JSON.stringify(d) for a d that is not undefined
JSONstringify(d) ==
    CASE d.t = "number" -> NumToStr(d.n)
      [] d.t = "string" -> <<"\"">> \o d.s \o <<"\"">>
      [] d.t = "object" -> <<"{", "\"">> \o d.s \o <<"\"", ":">> \o NumToStr(d.n) \o <<"}">>
      [] d.t = "null"   -> <<"n","u","l","l">>

----------------------------------------------------------------------------
(* Log entries *)

All   == <<"a","l","l">>
ERROR == <<"E","R","R","O","R">>
WARN  == <<"W","A","R","N">>
INFO  == <<"I","N","F","O">>
DEBUG == <<"D","E","B","U","G">>

LevelOptions == {All, ERROR, WARN, INFO, DEBUG}

LogEntry(ts, level, category, message, data) ==
    [timestamp |-> ts, level |-> level, category |-> category,
     message |-> message, data |-> data]

\* The records the store is given, in the order it is given them.
Feed ==
    << LogEntry(<<"T","1">>, ERROR, <<"a","u","t","h">>,
                <<"f","a","i","l","e","d">>, Obj(<<"c","o","d","e">>, 401)),
       LogEntry(<<"T","2">>, WARN, <<"N","e","t">>,
                <<"E","r","r","o","r"," ","u","p">>, Undefined),
       LogEntry(<<"T","3">>, <<"T","R","A","C","E">>, <<"a","u","t","h">>,
                <<"h","i","t","s">>, Num(0)),
       LogEntry(<<>>, INFO, <<"a","p","i">>,
                <<"o","k">>, Null) >>

EntryPool == {Feed[i] : i \in 1..Len(Feed)}

FeedAt(i) == Feed[((i - 1) % Len(Feed)) + 1]

SearchTexts == { <<>>, <<"E","R","R">>, <<"0">>, <<"A","u","t","h">> }

----------------------------------------------------------------------------
(* Derived values of a render *)

\* the callback of logs.filter
filterKeeps(log, lf, cf, st) ==
    IF lf # All /\ log.level # lf THEN FALSE
    ELSE IF cf # All /\ log.category # cf THEN FALSE
    ELSE IF st # <<>>
    THEN LET search == toLowerCase(st)
         IN  \/ includes(toLowerCase(log.message), search)
             \/ includes(toLowerCase(log.category), search)
             \/ (Truthy(log.data)
                 /\ includes(toLowerCase(JSONstringify(log.data)), search))
    ELSE TRUE

\* A filter that collects the kept entries in front of the earlier ones.
RECURSIVE ArrayFilterUnshift(_, _, _, _)
ArrayFilterUnshift(s, lf, cf, st) ==
    IF s = <<>> THEN <<>>
    ELSE ArrayFilterUnshift(Tail(s), lf, cf, st)
         \o (IF filterKeeps(Head(s), lf, cf, st) THEN <<Head(s)>> ELSE <<>>)

\* Array.prototype.filter with that callback
RECURSIVE ArrayFilter(_, _, _, _)
ArrayFilter(s, lf, cf, st) ==
    IF s = <<>> THEN <<>>
    ELSE (IF filterKeeps(Head(s), lf, cf, st) THEN <<Head(s)>> ELSE <<>>)
         \o ArrayFilter(Tail(s), lf, cf, st)

filteredLogs == ArrayFilter(logs, levelFilter, categoryFilter, searchText)

\* the UTF-16 code unit of a character
CharCode(c) ==
    IF \E i \in 1..26 : UpperCase[i] = c
    THEN 64 + (CHOOSE i \in 1..26 : UpperCase[i] = c)
    ELSE IF \E i \in 1..26 : LowerCase[i] = c
    THEN 96 + (CHOOSE i \in 1..26 : LowerCase[i] = c)
    ELSE IF \E i \in 1..10 : Digits[i] = c
    THEN 47 + (CHOOSE i \in 1..10 : Digits[i] = c)
    ELSE CASE c = " "  -> 32
           [] c = "\"" -> 34
           [] c = ":"  -> 58
           [] c = "["  -> 91
           [] c = "]"  -> 93
           [] c = "{"  -> 123
           [] c = "|"  -> 124
           [] c = "}"  -> 125
           [] OTHER    -> 10

\* a < b as the default comparator of Array.prototype.sort orders strings
RECURSIVE StrLess(_, _)
StrLess(a, b) ==
    IF b = <<>> THEN FALSE
    ELSE IF a = <<>> THEN TRUE
    ELSE IF CharCode(Head(a)) # CharCode(Head(b))
    THEN CharCode(Head(a)) < CharCode(Head(b))
    ELSE StrLess(Tail(a), Tail(b))

\* Array.from(new Set(s)): the first occurrence of each value, in order
RECURSIVE Distinct(_)
Distinct(s) ==
    IF s = <<>> THEN <<>>
    ELSE LET front == Distinct(SubSeq(s, 1, Len(s) - 1))
             last == s[Len(s)]
         IN  IF \E i \in 1..Len(front) : front[i] = last
             THEN front
             ELSE Append(front, last)

RECURSIVE InsertSorted(_, _)
InsertSorted(x, s) ==
    IF s = <<>> THEN <<x>>
    ELSE IF StrLess(x, Head(s)) THEN <<x>> \o s
    ELSE <<Head(s)>> \o InsertSorted(x, Tail(s))

\* Array.prototype.sort() with no comparator
RECURSIVE SortStrings(_)
SortStrings(s) ==
    IF s = <<>> THEN <<>>
    ELSE InsertSorted(Head(s), SortStrings(Tail(s)))

categoriesOf(ls) ==
    SortStrings(Distinct([i \in 1..Len(ls) |-> ls[i].category]))

\* The categories of the rows on display only.
categoriesOfVisible == categoriesOf(filteredLogs)

\* const categories
categories == categoriesOf(logs)

\* the values of the category dropdown's options
categoryOptions == {All} \cup {logs[i].category : i \in 1..Len(logs)}

\* one line of the export
formatLine(log) ==
    LET dataStr == IF Truthy(log.data)
                   THEN <<" ", "|", " ">> \o JSONstringify(log.data)
                   ELSE <<>>
    IN  <<"[">> \o log.timestamp \o <<"]", " ", "[">> \o log.level
        \o <<"]", " ", "[">> \o log.category \o <<"]", " ">>
        \o log.message \o dataStr

\* the content of the exported blob
exportContent(ls) == join([i \in 1..Len(ls) |-> formatLine(ls[i])], <<"\n">>)

----------------------------------------------------------------------------
(* Handlers of the toolbar *)

ControllerVars == <<open, loading, pollIntervalRef, timers, inflight, clears,
                    nextId, store, produced, curInit, logsFrom, purged>>

\* the effect on [logs, autoScroll]: it runs when one of them changed, and
\* scrolls when autoScroll is on and the list is mounted (the dialog is open)
scrollEffect(depsChanged, as, op) == depsChanged /\ as /\ op

SetSearchText(s) ==
    /\ open
    /\ searchText' = s
    /\ UNCHANGED <<logs, levelFilter, categoryFilter, autoScroll, expandedLogs,
                   exported>>
    /\ UNCHANGED ControllerVars
    /\ scrolled' = scrollEffect(FALSE, autoScroll', open')

SetLevelFilter(l) ==
    /\ open
    /\ levelFilter' = l
    /\ UNCHANGED <<logs, searchText, categoryFilter, autoScroll, expandedLogs,
                   exported>>
    /\ UNCHANGED ControllerVars
    /\ scrolled' = scrollEffect(FALSE, autoScroll', open')

SetCategoryFilter(c) ==
    /\ open
    /\ c \in categoryOptions
    /\ categoryFilter' = c
    /\ UNCHANGED <<logs, searchText, levelFilter, autoScroll, expandedLogs,
                   exported>>
    /\ UNCHANGED ControllerVars
    /\ scrolled' = scrollEffect(FALSE, autoScroll', open')

handleExportLogs ==
    /\ open
    /\ Len(logs) # 0
    /\ exported' = <<exportContent(logs)>>
    /\ UNCHANGED <<logs, searchText, levelFilter, categoryFilter, autoScroll,
                   expandedLogs>>
    /\ UNCHANGED ControllerVars
    /\ scrolled' = scrollEffect(FALSE, autoScroll', open')

\* A toggle that only ever expands.
ToggleSetAddOnly(S, index) == S \cup {index}

\* the new Set built by toggleExpand
ToggleSet(S, index) == IF index \in S THEN S \ {index} ELSE S \cup {index}

\* the chevron of row index (0-based), rendered for rows with data
toggleExpand(index) ==
    /\ open
    /\ index \in 0..(Len(filteredLogs) - 1)
    /\ hasData(filteredLogs[index + 1].data)
    /\ expandedLogs' = ToggleSet(expandedLogs, index)
    /\ UNCHANGED <<logs, searchText, levelFilter, categoryFilter, autoScroll,
                   exported>>
    /\ UNCHANGED ControllerVars
    /\ scrolled' = scrollEffect(FALSE, autoScroll', open')

\* the auto-scroll button
toggleAutoScroll ==
    /\ open
    /\ autoScroll' = ~autoScroll
    /\ UNCHANGED <<logs, searchText, levelFilter, categoryFilter, expandedLogs,
                   exported>>
    /\ UNCHANGED ControllerVars
    /\ scrolled' = scrollEffect(TRUE, autoScroll', open')

----------------------------------------------------------------------------
(* The console with a snapshot on display: filtering and export *)

Snapshots == UNION {[1..n -> EntryPool] : n \in 0..MaxLen}

\* A visible console between polls: the snapshot is what the store holds,
\* no request is in flight, and id is the number of the next request.
SnapshotInit(id) ==
    /\ open = TRUE
    /\ logs \in Snapshots
    /\ loading = FALSE
    /\ searchText = <<>>
    /\ levelFilter = All
    /\ categoryFilter = All
    /\ autoScroll = TRUE
    /\ expandedLogs = {}
    /\ pollIntervalRef = 1
    /\ timers = {1}
    /\ inflight = {}
    /\ clears = {}
    /\ nextId = id
    /\ store = logs
    /\ produced = Len(logs)
    /\ exported = <<>>
    /\ curInit = 0
    /\ scrolled = FALSE
    /\ logsFrom = 1
    /\ purged = 0

FilterInit == SnapshotInit(2)

FilterNext ==
    \/ \E s \in SearchTexts : SetSearchText(s)
    \/ \E l \in LevelOptions : SetLevelFilter(l)
    \/ \E c \in EntryPool : SetCategoryFilter(c.category)
    \/ SetCategoryFilter(All)
    \/ handleExportLogs
    \/ toggleAutoScroll

FilterSpec == FilterInit /\ [][FilterNext]_vars

----------------------------------------------------------------------------
(* The console controller: visibility effect, polling, refresh and clear *)

ViewVars == <<searchText, levelFilter, categoryFilter, autoScroll,
              expandedLogs, exported>>

\* setInterval hands out a handle that no armed timer has
NewTimerId(ts) == CHOOSE i \in 1..(Cardinality(ts) + 1) : i \notin ts

\* A cleanup that drops the reference and leaves the interval armed.
CleanupTimersLeak(ts, ref) == ts

\* the effect's cleanup: clearInterval(pollIntervalRef.current) when it is set
CleanupTimers(ts, ref) == IF ref # 0 THEN ts \ {ref} ELSE ts

\* a call of window.api.proxyGetLogs() that loadLogs awaits; initial marks the
\* call whose promise carries .finally(() => setLoading(false))
NewFetch(id, initial) ==
    [id |-> id, initial |-> initial, st |-> "pending", val |-> <<>>]

\* A loadLogs that drops the result.
LoadLogsResultDrop(f, cur) == cur

\* A loadLogs whose catch resets the snapshot.
LoadLogsResultReset(f, cur) == IF f.st = "ok" THEN f.val ELSE <<>>

\* loadLogs after its await: setLogs(result), or the catch that only logs
LoadLogsResult(f, cur) == IF f.st = "ok" THEN f.val ELSE cur

\* A handleClearLogs that never resets the snapshot.
ClearLogsResultKeep(c, cur) == cur

\* A handleClearLogs that resets the snapshot whatever the store answered.
ClearLogsResultAlways(c, cur) == <<>>

\* handleClearLogs after its await: setLogs([]), or the catch that only logs
ClearLogsResult(c, cur) == IF c.st = "ok" THEN <<>> ELSE cur

\* open becomes true: the previous cleanup runs, then the effect body
OpenDialog ==
    /\ ~open
    /\ nextId <= MaxRequests
    /\ open' = TRUE
    /\ loading' = TRUE
    /\ inflight' = inflight \cup {NewFetch(nextId, TRUE)}
    /\ nextId' = nextId + 1
    /\ curInit' = nextId
    /\ LET cleaned == CleanupTimers(timers, pollIntervalRef)
           id == NewTimerId(cleaned)
       IN  /\ timers' = cleaned \cup {id}
           /\ pollIntervalRef' = id
    /\ UNCHANGED <<logs, clears, store, produced>>
    /\ UNCHANGED <<logsFrom, purged>>
    /\ UNCHANGED ViewVars
    /\ scrolled' = scrollEffect(FALSE, autoScroll', open')

\* open becomes false: the cleanup runs, the effect body does nothing
CloseDialog ==
    /\ open
    /\ open' = FALSE
    /\ timers' = CleanupTimers(timers, pollIntervalRef)
    /\ pollIntervalRef' = 0
    /\ curInit' = 0
    /\ UNCHANGED <<logs, loading, inflight, clears, nextId, store, produced>>
    /\ UNCHANGED <<logsFrom, purged>>
    /\ UNCHANGED ViewVars
    /\ scrolled' = scrollEffect(FALSE, autoScroll', open')

\* an armed interval fires: setInterval(loadLogs, 2000)
TimerTick(t) ==
    /\ t \in timers
    /\ nextId <= MaxRequests
    /\ inflight' = inflight \cup {NewFetch(nextId, FALSE)}
    /\ nextId' = nextId + 1
    /\ UNCHANGED <<open, logs, loading, pollIntervalRef, timers, clears,
                   store, produced, curInit>>
    /\ UNCHANGED <<logsFrom, purged>>
    /\ UNCHANGED ViewVars
    /\ scrolled' = scrollEffect(FALSE, autoScroll', open')

\* the refresh button: onClick={loadLogs}, disabled={loading}
ManualRefresh ==
    /\ open
    /\ ~loading
    /\ nextId <= MaxRequests
    /\ inflight' = inflight \cup {NewFetch(nextId, FALSE)}
    /\ nextId' = nextId + 1
    /\ UNCHANGED <<open, logs, loading, pollIntervalRef, timers, clears,
                   store, produced, curInit>>
    /\ UNCHANGED <<logsFrom, purged>>
    /\ UNCHANGED ViewVars
    /\ scrolled' = scrollEffect(FALSE, autoScroll', open')

\* the store answers a getLogs call with the records it holds
StoreReturnLogs(f) ==
    /\ f \in inflight
    /\ f.st = "pending"
    /\ inflight' = (inflight \ {f}) \cup {[f EXCEPT !.st = "ok", !.val = store]}
    /\ UNCHANGED <<open, logs, loading, pollIntervalRef, timers, clears,
                   nextId, store, produced, curInit>>
    /\ UNCHANGED <<logsFrom, purged>>
    /\ UNCHANGED ViewVars
    /\ scrolled' = scrollEffect(FALSE, autoScroll', open')

\* the store cannot be reached: the getLogs promise will reject
StoreFailLogs(f) ==
    /\ f \in inflight
    /\ f.st = "pending"
    /\ inflight' = (inflight \ {f}) \cup {[f EXCEPT !.st = "err"]}
    /\ UNCHANGED <<open, logs, loading, pollIntervalRef, timers, clears,
                   nextId, store, produced, curInit>>
    /\ UNCHANGED <<logsFrom, purged>>
    /\ UNCHANGED ViewVars
    /\ scrolled' = scrollEffect(FALSE, autoScroll', open')

\* A completion that also forgets which rows were expanded.
FetchSettledPrune(f) ==
    /\ f \in inflight
    /\ f.st # "pending"
    /\ logs' = LoadLogsResult(f, logs)
    /\ loading' = IF f.initial THEN FALSE ELSE loading
    /\ inflight' = inflight \ {f}
    /\ UNCHANGED <<open, pollIntervalRef, timers, clears, nextId, store,
                   produced, curInit>>
    /\ logsFrom' = IF f.st = "ok" THEN f.id ELSE logsFrom
    /\ UNCHANGED purged
    /\ expandedLogs' = IF f.st = "ok" THEN {} ELSE expandedLogs
    /\ UNCHANGED <<searchText, levelFilter, categoryFilter, autoScroll,
                   exported>>
    /\ scrolled' = scrollEffect(f.st = "ok", autoScroll', open')

\* the getLogs promise settles: loadLogs resumes, then the finally callback
FetchSettled(f) ==
    /\ f \in inflight
    /\ f.st # "pending"
    /\ logs' = LoadLogsResult(f, logs)
    /\ loading' = IF f.initial THEN FALSE ELSE loading
    /\ inflight' = inflight \ {f}
    /\ UNCHANGED <<open, pollIntervalRef, timers, clears, nextId, store,
                   produced, curInit>>
    /\ logsFrom' = IF f.st = "ok" THEN f.id ELSE logsFrom
    /\ UNCHANGED purged
    /\ UNCHANGED ViewVars
    /\ scrolled' = scrollEffect(f.st = "ok", autoScroll', open')

\* the clear button: onClick={handleClearLogs}, disabled={logs.length === 0}
handleClearLogs ==
    /\ open
    /\ Len(logs) # 0
    /\ nextId <= MaxRequests
    /\ clears' = clears \cup {[id |-> nextId, st |-> "pending", upto |-> 0]}
    /\ nextId' = nextId + 1
    /\ UNCHANGED <<open, logs, loading, pollIntervalRef, timers, inflight,
                   store, produced, curInit>>
    /\ UNCHANGED <<logsFrom, purged>>
    /\ UNCHANGED ViewVars
    /\ scrolled' = scrollEffect(FALSE, autoScroll', open')

\* the store discards its records
StoreClearLogs(c) ==
    /\ c \in clears
    /\ c.st = "pending"
    /\ store' = <<>>
    /\ clears' = (clears \ {c}) \cup {[c EXCEPT !.st = "ok", !.upto = produced]}
    /\ UNCHANGED <<open, logs, loading, pollIntervalRef, timers, inflight,
                   nextId, produced, curInit>>
    /\ UNCHANGED <<logsFrom, purged>>
    /\ UNCHANGED ViewVars
    /\ scrolled' = scrollEffect(FALSE, autoScroll', open')

\* the store cannot be reached: the clearLogs promise will reject
StoreFailClear(c) ==
    /\ c \in clears
    /\ c.st = "pending"
    /\ clears' = (clears \ {c}) \cup {[c EXCEPT !.st = "err"]}
    /\ UNCHANGED <<open, logs, loading, pollIntervalRef, timers, inflight,
                   nextId, store, produced, curInit>>
    /\ UNCHANGED <<logsFrom, purged>>
    /\ UNCHANGED ViewVars
    /\ scrolled' = scrollEffect(FALSE, autoScroll', open')

\* the clearLogs promise settles: handleClearLogs resumes
ClearSettled(c) ==
    /\ c \in clears
    /\ c.st # "pending"
    /\ logs' = ClearLogsResult(c, logs)
    /\ clears' = clears \ {c}
    /\ UNCHANGED <<open, loading, pollIntervalRef, timers, inflight, nextId,
                   store, produced, curInit>>
    /\ logsFrom' = IF c.st = "ok" THEN 0 ELSE logsFrom
    /\ purged' = IF c.st = "ok" /\ c.upto > purged THEN c.upto ELSE purged
    /\ UNCHANGED ViewVars
    /\ scrolled' = scrollEffect(c.st = "ok", autoScroll', open')

\* the proxy writes one more record to the store
StoreAppend ==
    /\ produced < MaxProduced
    /\ store' = Append(store, FeedAt(produced + 1))
    /\ produced' = produced + 1
    /\ UNCHANGED <<open, logs, loading, pollIntervalRef, timers, inflight,
                   clears, nextId, curInit>>
    /\ UNCHANGED <<logsFrom, purged>>
    /\ UNCHANGED ViewVars
    /\ scrolled' = scrollEffect(FALSE, autoScroll', open')

\* The component after construction; id is the number of its first request.
Constructed(id) ==
    /\ open = FALSE
    /\ logs = <<>>
    /\ loading = FALSE
    /\ searchText = <<>>
    /\ levelFilter = All
    /\ categoryFilter = All
    /\ autoScroll = TRUE
    /\ expandedLogs = {}
    /\ pollIntervalRef = 0
    /\ timers = {}
    /\ inflight = {}
    /\ clears = {}
    /\ nextId = id
    /\ store = <<>>
    /\ produced = 0
    /\ exported = <<>>
    /\ curInit = 0
    /\ scrolled = FALSE
    /\ logsFrom = 0
    /\ purged = 0

Init == Constructed(1)

Next ==
    \/ OpenDialog
    \/ CloseDialog
    \/ \E t \in timers : TimerTick(t)
    \/ ManualRefresh
    \/ \E f \in inflight : StoreReturnLogs(f)
    \/ \E f \in inflight : StoreFailLogs(f)
    \/ \E f \in inflight : FetchSettled(f)
    \/ handleClearLogs
    \/ \E c \in clears : StoreClearLogs(c)
    \/ \E c \in clears : StoreFailClear(c)
    \/ \E c \in clears : ClearSettled(c)
    \/ StoreAppend
    \/ \E e \in EntryPool : SetCategoryFilter(e.category)
    \/ SetCategoryFilter(All)

Spec == Init /\ [][Next]_vars

----------------------------------------------------------------------------
(* The controller polling without end.  Request numbers only order the     *)
(* requests that are in flight together, so the numbering starts over once *)
(* none is in flight; a busy period issues at most MaxLiveRequests.        *)

LiveFirstId == MaxRequests - MaxLiveRequests + 1

LiveInit == Constructed(LiveFirstId)

Renumber ==
    /\ inflight = {}
    /\ clears = {}
    /\ nextId > LiveFirstId
    /\ nextId' = LiveFirstId
    /\ curInit' = 0
    /\ logsFrom' = 0
    /\ UNCHANGED <<open, logs, loading, pollIntervalRef, timers, inflight,
                   clears, store, produced, purged>>
    /\ UNCHANGED ViewVars
    /\ scrolled' = scrollEffect(FALSE, autoScroll', open')

LiveNext ==
    \/ OpenDialog
    \/ CloseDialog
    \/ \E t \in timers : TimerTick(t)
    \/ ManualRefresh
    \/ \E f \in inflight : StoreReturnLogs(f)
    \/ \E f \in inflight : StoreFailLogs(f)
    \/ \E f \in inflight : FetchSettled(f)
    \/ handleClearLogs
    \/ \E c \in clears : StoreClearLogs(c)
    \/ \E c \in clears : StoreFailClear(c)
    \/ \E c \in clears : ClearSettled(c)
    \/ StoreAppend
    \/ Renumber

\* The interval fires whatever else happens; the store answers every request
\* and every settled promise runs its continuation.
LiveFairness ==
    /\ SF_vars(\E t \in timers : TimerTick(t))
    /\ WF_vars(\E f \in inflight : StoreReturnLogs(f) \/ StoreFailLogs(f))
    /\ WF_vars(\E f \in inflight : FetchSettled(f))
    /\ WF_vars(\E c \in clears : StoreClearLogs(c) \/ StoreFailClear(c))
    /\ WF_vars(\E c \in clears : ClearSettled(c))
    /\ WF_vars(Renumber)

LiveSpec == LiveInit /\ [][LiveNext]_vars /\ LiveFairness

----------------------------------------------------------------------------
(* A visible console whose rows are expanded and collapsed while the level   *)
(* filter changes and one more request (a refresh or a clear) runs its course *)

ExpandInit == SnapshotInit(MaxRequests)

ExpandNext ==
    \/ \E index \in 0..(Len(logs) - 1) : toggleExpand(index)
    \/ \E l \in LevelOptions : SetLevelFilter(l)
    \/ ManualRefresh
    \/ \E f \in inflight : StoreReturnLogs(f)
    \/ \E f \in inflight : StoreFailLogs(f)
    \/ \E f \in inflight : FetchSettled(f)
    \/ handleClearLogs
    \/ \E c \in clears : StoreClearLogs(c)
    \/ \E c \in clears : StoreFailClear(c)
    \/ \E c \in clears : ClearSettled(c)
    \/ StoreAppend

ExpandSpec == ExpandInit /\ [][ExpandNext]_vars

----------------------------------------------------------------------------
(* Claims about the controller, checked under Spec *)

\* a getLogs promise settles in this step
AFetchSettles == \E f \in inflight : f.st # "pending" /\ inflight' = inflight \ {f}
AFetchFails   == \E f \in inflight : f.st = "err" /\ inflight' = inflight \ {f}
\* a getLogs call is issued in this step
AFetchStarts  == \E f \in inflight' : f \notin inflight /\ f.st = "pending"
\* a clearLogs promise settles in this step
AClearSucceeds == \E c \in clears : c.st = "ok" /\ clears' = clears \ {c}
AClearFails    == \E c \in clears : c.st = "err" /\ clears' = clears \ {c}

\* C1: a fetch that settles while the console is hidden changes neither the
\* snapshot nor the loading flag.
C1_HiddenFetchDiscarded ==
    [][(~open /\ AFetchSettles) => (logs' = logs /\ loading' = loading)]_vars

\* C2: no fetch is started while the console is hidden, and hiding the
\* console leaves no timer armed.
C2_NoFetchWhileHidden ==
    [][/\ AFetchStarts => open'
       /\ ~open' => timers' = {}]_vars

\* The console was hidden with its first fetch still in flight.
C2_Witness == ~open /\ inflight # {} /\ timers = {} /\ nextId > 1

\* C4: at most one fetch is in flight.
C4_SingleFlight == Cardinality(inflight) <= 1

\* C5: the step in which a successful clear settles leaves the snapshot empty.
C5_ClearSuccessEmptiesSnapshot ==
    [][AClearSucceeds => logs' = <<>>]_vars

\* One fetch filled the snapshot, one clear emptied the store and has
\* settled, and the records produced before it are gone from the snapshot
\* with no fetch issued since.
C5_Witness ==
    /\ nextId = 3
    /\ inflight = {}
    /\ clears = {}
    /\ produced > 0
    /\ store = <<>>
    /\ logs = <<>>

\* C6: the step in which a failed clear settles changes neither the snapshot
\* nor the filter criteria nor the expansion set, and the poll timer of a
\* visible console stays armed.
C6_ClearFailureKeepsState ==
    [][AClearFails =>
         /\ logs' = logs
         /\ searchText' = searchText
         /\ levelFilter' = levelFilter
         /\ categoryFilter' = categoryFilter
         /\ expandedLogs' = expandedLogs
         /\ timers' = timers
         /\ (open' => pollIntervalRef' \in timers')]_vars

\* A failed clear is about to settle over a non-empty snapshot filtered by
\* category, with the console visible.
C6_Witness ==
    /\ open
    /\ Len(logs) > 0
    /\ categoryFilter # All
    /\ \E c \in clears : c.st = "err"

\* C7: the step in which a failed fetch settles keeps the snapshot and the
\* visible list, and the poll timer of a visible console stays armed.
C7_FetchFailureKeepsSnapshot ==
    [][AFetchFails =>
         /\ logs' = logs
         /\ filteredLogs' = filteredLogs
         /\ open' = open
         /\ timers' = timers
         /\ (open' => pollIntervalRef' \in timers')]_vars

\* A failed fetch is about to settle over a snapshot an earlier fetch brought.
C7_Witness ==
    /\ open
    /\ Len(logs) > 0
    /\ \E f \in inflight : f.st = "err"

\* C8: while the console is visible and the fetch issued by its last opening
\* is in flight, the loading flag is set.
C8_LoadingUntilInitialFetch ==
    (open /\ \E f \in inflight : f.id = curInit) => loading

----------------------------------------------------------------------------
(* Claims about filtering and export, checked under FilterSpec *)

\* C3: every export writes the newline-joined formatLine of the filtered
\* view (filteredLogs), not of the full snapshot.
C3_ExportIsFilteredView ==
    [][exported' # exported
         => exported' = <<exportContent(filteredLogs')>>]_vars

\* What C9 states an entry must satisfy to be visible; data is present when
\* it is neither undefined nor null (hasData).
C9_Keeps(e) ==
    /\ (levelFilter = All \/ e.level = levelFilter)
    /\ (categoryFilter = All \/ e.category = categoryFilter)
    /\ \/ searchText = <<>>
       \/ LET q == toLowerCase(searchText)
          IN  \/ includes(toLowerCase(e.message), q)
              \/ includes(toLowerCase(e.category), q)
              \/ (hasData(e.data)
                  /\ includes(toLowerCase(JSONstringify(e.data)), q))

\* C9: an entry of the snapshot is in the visible list iff it passes the level
\* test, the category test and the case-insensitive search over message,
\* category and the JSON of data when data is present; the identity criteria
\* give the snapshot itself.
C9_VisibleIffCriteria ==
    /\ \A i \in 1..Len(logs) :
         (\E j \in 1..Len(filteredLogs) : filteredLogs[j] = logs[i])
           <=> C9_Keeps(logs[i])
    /\ (levelFilter = All /\ categoryFilter = All /\ searchText = <<>>)
         => filteredLogs = logs

RECURSIVE IsSubsequence(_, _)
IsSubsequence(a, b) ==
    IF a = <<>> THEN TRUE
    ELSE IF b = <<>> THEN FALSE
    ELSE IF Head(a) = Head(b) THEN IsSubsequence(Tail(a), Tail(b))
    ELSE IsSubsequence(a, Tail(b))

\* C10: the visible list is a subsequence of the snapshot in the snapshot's
\* order: nothing reordered, duplicated or invented.
C10_VisibleIsSubsequence == IsSubsequence(filteredLogs, logs)

\* A snapshot of three different entries whose middle one the criteria drop.
C10_Witness ==
    /\ Len(logs) = 3
    /\ logs[1] # logs[3]
    /\ searchText # <<>>
    /\ filteredLogs = <<logs[1], logs[3]>>

\* C11: the category filter is "all" or a category of the current snapshot.
C11_CategoryFilterInSnapshot == categoryFilter \in categoryOptions

\* a comes strictly before b in lexicographic order of the code units
C12_Before(a, b) ==
    \E k \in 1..(Len(a) + 1) :
        /\ k <= Len(b)
        /\ SubSeq(a, 1, k - 1) = SubSeq(b, 1, k - 1)
        /\ (k = Len(a) + 1 \/ CharCode(a[k]) < CharCode(b[k]))

\* C12: the category options are the distinct categories of the full
\* snapshot, whatever the criteria, in strictly ascending lexicographic order.
C12_CategoriesSortedDistinct ==
    /\ {categories[i] : i \in 1..Len(categories)}
         = {logs[i].category : i \in 1..Len(logs)}
    /\ \A i \in 1..(Len(categories) - 1) :
         C12_Before(categories[i], categories[i + 1])

\* Three entries, two of one category, first seen out of order, one of them
\* of an unrecognized level, and a level filter that hides part of them.
C12_Witness ==
    /\ Len(logs) = 3
    /\ Len(categories) = 2
    /\ categories[1] = logs[2].category
    /\ categories[2] = logs[1].category
    /\ logs[3].level \notin LevelOptions
    /\ levelFilter # All
    /\ Len(filteredLogs) = 1

\* What C15 states a line of the export is.
C15_Line(e) ==
    <<"[">> \o e.timestamp \o <<"]", " ", "[">> \o e.level
    \o <<"]", " ", "[">> \o e.category \o <<"]", " ">> \o e.message
    \o (IF hasData(e.data)
        THEN <<" ", "|", " ">> \o JSONstringify(e.data)
        ELSE <<>>)

\* C15: formatLine gives "[timestamp] [level] [category] message", followed
\* by " | " and the JSON of data iff data is present; no entries export as
\* the empty string.
C15_FormatLine ==
    /\ \A i \in 1..Len(logs) : formatLine(logs[i]) = C15_Line(logs[i])
    /\ exportContent(<<>>) = <<>>

----------------------------------------------------------------------------
(* Claims about auto-scroll, expansion and stale results *)

\* C13: with auto-scroll on, a step that changes the visible list scrolls to
\* the newest entry, whether the snapshot or the criteria changed; with
\* auto-scroll off no step scrolls.
C13_ScrollOnVisibleChange ==
    [][/\ (autoScroll /\ autoScroll' /\ filteredLogs' # filteredLogs)
            => scrolled'
       /\ ~autoScroll' => ~scrolled']_vars

AFetchSucceeds == \E f \in inflight : f.st = "ok" /\ inflight' = inflight \ {f}

\* C14: a step that replaces the snapshot (a successful fetch or clear
\* settling) keeps the search text, the level and category filters and the
\* expansion set; the expansion set changes only in a step that leaves the
\* snapshot and the requests alone.
C14_ReplacementKeepsView ==
    [][/\ (AFetchSucceeds \/ AClearSucceeds \/ logs' # logs)
            => /\ searchText' = searchText
               /\ levelFilter' = levelFilter
               /\ categoryFilter' = categoryFilter
               /\ expandedLogs' = expandedLogs
       /\ expandedLogs' # expandedLogs
            => /\ logs' = logs
               /\ inflight' = inflight
               /\ clears' = clears]_vars

\* A clear has emptied a snapshot that had expanded rows under a level filter.
C14_Witness ==
    /\ logs = <<>>
    /\ store = <<>>
    /\ clears = {}
    /\ nextId > MaxRequests
    /\ expandedLogs # {}
    /\ levelFilter # All

\* C16: a step that changes the expansion set flips exactly one position and
\* leaves the snapshot and the criteria alone; toggling a position twice
\* gives the expansion set back.
C16_ToggleFlipsOne ==
    [][/\ expandedLogs' # expandedLogs
            => /\ \E i \in 0..(Len(filteredLogs) - 1) :
                     (expandedLogs' \ expandedLogs)
                       \cup (expandedLogs \ expandedLogs') = {i}
               /\ logs' = logs
               /\ searchText' = searchText
               /\ levelFilter' = levelFilter
               /\ categoryFilter' = categoryFilter
       /\ \A i \in 0..(Len(filteredLogs) - 1) :
            ToggleSet(ToggleSet(expandedLogs, i), i) = expandedLogs]_vars

\* Two rows are expanded under a level filter, one of them past the end of
\* the list now on display.
C16_Witness ==
    /\ Cardinality(expandedLogs) = 2
    /\ levelFilter # All
    /\ \E i \in expandedLogs : i >= Len(filteredLogs)

\* C17: once a successful clear has settled, the snapshot holds none of the
\* records the store held before that clear.
C17_NoPreClearRecords ==
    \A i \in 1..Len(logs) : \A k \in 1..purged : logs[i] # FeedAt(k)

\* C18: a fetch whose result is installed was issued after the fetch whose
\* result it replaces.
C18_NoRegression ==
    [][\A f \in inflight :
         (f.st = "ok" /\ inflight' = inflight \ {f}) => f.id > logsFrom]_vars

\* C19: a visible console has exactly one timer armed, the one the ref holds,
\* and a hidden one has none; becoming visible issues exactly one fetch.
C19_OneTimerWhileVisible ==
    [][/\ open' => (Cardinality(timers') = 1 /\ pollIntervalRef' \in timers')
       /\ ~open' => (timers' = {} /\ pollIntervalRef' = 0)
       /\ (~open /\ open')
            => Cardinality({f \in inflight' : f \notin inflight}) = 1]_vars

\* The console is visible for the second time, with the first opening's
\* fetch still in flight.
C19_Witness ==
    /\ open
    /\ Cardinality(timers) = 1
    /\ \E f \in inflight : f.initial /\ f.id # curInit

----------------------------------------------------------------------------
(* Convergence of the snapshot, checked under LiveSpec *)

NoFetchFailure == \A f \in inflight : f.st # "err"

\* C20: if the console stays visible and from some point on no fetch fails
\* (the store stops changing once it has been given its last record and
\* cleared for the last time), the snapshot eventually equals the store's
\* content and stays equal to it.
C20_EventuallyConsistent ==
    (<>[]open /\ <>[]NoFetchFailure) => <>[](logs = store)

\* The store has been given all its records and the visible console shows
\* them, with no request in flight.
C20_Witness ==
    /\ open
    /\ produced = MaxProduced
    /\ Len(store) > 0
    /\ logs = store
    /\ inflight = {}
    /\ clears = {}

====
